---------------------------- MODULE Spec2Model ----------------------------
(***************************************************************************)
(* ArogyaAI/App.tsx: the App component's state (useState hooks), the token *)
(* kept in AsyncStorage, and the handlers sendMessage, pickImage, signup,  *)
(* login and the navigation buttons.  Every async handler is split at its  *)
(* awaits: one action for the synchronous part run by the press, and one   *)
(* action per continuation, for each outcome the awaited promise can have. *)
(* A text is a sequence of chunks: a typed character, or a fixed string.   *)
(***************************************************************************)
EXTENDS Naturals, Sequences, FiniteSets

VARIABLES screen, message, chat, image, email, password, loading,
          token, sends, logins, signups, picker, requests, alert, author

vars == <<screen, message, chat, image, email, password, loading,
          token, sends, logins, signups, picker, requests, alert, author>>

(* ------------------------------ bounds --------------------------------- *)
MaxChat == 4
MaxLogins == 2
MaxSignups == 1

(* ------------------------------ values --------------------------------- *)
NULL == "null"
UNDEFINED == "undefined"
\* what the user types: nothing, blanks only, a clean text, a padded text
Texts == {<<>>, <<" ">>, <<"a">>, <<" ", "a", " ">>}
URIs == {"file:///a.jpg"}
Tokens == {"tok123", "tok456"}
Emails == {"", "u@x"}
Passwords == {"", "pw"}
Replies == {<<"hi">>}
\* errorData.detail: a text, or <<UNDEFINED>> when the body has no such field
Details == {<<"token expired">>, <<UNDEFINED>>}

ValidationAlert == "Please enter a message or select an image"
ServerNotReachable == "Server not reachable"

(* ------------------------- String.prototype.trim ------------------------ *)
IsSpace(c) == c = " "

RECURSIVE TrimStart(_)
TrimStart(s) ==
  IF s # <<>> /\ IsSpace(Head(s)) THEN TrimStart(Tail(s)) ELSE s

RECURSIVE TrimEnd(_)
TrimEnd(s) ==
  IF s # <<>> /\ IsSpace(s[Len(s)]) THEN TrimEnd(SubSeq(s, 1, Len(s) - 1)) ELSE s

\* a trim that removes the leading blanks only
TrimLeading(s) == TrimStart(s)

\* message.trim(), lines 23 and 41
Trim(s) == TrimEnd(TrimStart(s))

(* ------------------------- conversation entries ------------------------- *)
Entry(t, v, s) == [type |-> t, value |-> v, sender |-> s]

\* mutant of AppendEntry: [e, ...prev]
PrependEntry(prev, e) == <<e>> \o prev

\* setChat((prev) => [...prev, e])
AppendEntry(prev, e) == Append(prev, e)

(* ------------------------------ sendMessage ----------------------------- *)
\* mutant of CanSend: the text is tested without trim()
CanSendUntrimmed(m, img) == ~(m = <<>> /\ img = NULL)

\* the guard of line 23, negated: the send goes ahead
CanSend(m, img) == ~(Trim(m) = <<>> /\ img = NULL)

\* mutant of UserEntries: the user's text is not shown
UserEntriesNone(m) == <<>>

\* lines 31-33: the user's entry, shown before anything is sent
UserEntries(m) ==
  IF Trim(m) # <<>> THEN <<Entry("text", m, "user")>> ELSE <<>>

\* mutant of FormData: the text goes out as typed
FormDataUntrimmed(m, img) ==
  [hasMessage |-> Trim(m) # <<>>,
   message    |-> IF Trim(m) # <<>> THEN m ELSE <<>>,
   hasImage   |-> img # NULL,
   image      |-> IF img # NULL
                    THEN [uri |-> img, name |-> "upload.jpg", type |-> "image/jpeg"]
                    ELSE [uri |-> NULL, name |-> NULL, type |-> NULL]]

\* lines 37-50: the multipart body
FormData(m, img) ==
  [hasMessage |-> Trim(m) # <<>>,
   message    |-> IF Trim(m) # <<>> THEN Trim(m) ELSE <<>>,
   hasImage   |-> img # NULL,
   image      |-> IF img # NULL
                    THEN [uri |-> img, name |-> "upload.jpg", type |-> "image/jpeg"]
                    ELSE [uri |-> NULL, name |-> NULL, type |-> NULL]]

\* line 70: `Error: ${errorData.detail || 'Authentication failed'}`
ErrorText(detail) ==
  <<"Error: ">> \o (IF detail = <<UNDEFINED>> \/ detail = <<>>
                      THEN <<"Authentication failed">> ELSE detail)

\* conversation entries the sends under way may still append
Reserved ==
  Cardinality({s \in DOMAIN sends : sends[s].pc \in {"getItem", "fetch", "json", "rejected"}})

Init ==
  /\ screen = "auth"
  /\ message = <<>>
  /\ chat = <<>>
  /\ image = NULL
  /\ email = ""
  /\ password = ""
  /\ loading = FALSE
  /\ token \in {NULL} \cup Tokens
  /\ sends = <<>>
  /\ logins = <<>>
  /\ signups = <<>>
  /\ picker = "idle"
  /\ requests = <<>>
  /\ alert = ""
  /\ author = <<>>

\* the chat screen's controls answer only while the system picker is closed
ChatUI == screen = "chat" /\ picker = "idle"

\* onChangeText={setMessage}, line 238
SetMessage(t) ==
  /\ ChatUI
  /\ message' = t
  /\ UNCHANGED <<screen, chat, image, email, password, loading, token, sends,
                 logins, signups, picker, requests, alert, author>>

\* sendMessage up to its first await, lines 21-35
SendMessage ==
  /\ ChatUI
  /\ ~loading
  /\ IF ~CanSend(message, image)
       THEN /\ alert' = ValidationAlert
            /\ UNCHANGED <<loading, chat, author, sends>>
       ELSE /\ Len(chat) + Reserved + Len(UserEntries(message)) + 1 <= MaxChat
            /\ loading' = TRUE
            /\ chat' = chat \o UserEntries(message)
            /\ author' = author \o [i \in 1..Len(UserEntries(message)) |-> Len(sends) + 1]
            /\ sends' = Append(sends, [pc |-> "getItem", message |-> message,
                                       image |-> image, status |-> "none",
                                       body |-> <<>>, req |-> 0, respLen |-> 0])
            /\ UNCHANGED alert
  /\ UNCHANGED <<screen, message, image, email, password, token, logins,
                 signups, picker, requests>>

\* a header built without the token that was read
AuthorizationNoToken(tok) == <<"Bearer ", NULL>>

\* line 59: Authorization: `Bearer ${token}`
Authorization(tok) == <<"Bearer ", tok>>

\* AsyncStorage.getItem resolved: lines 35-62, up to the fetch being issued
SendTokenRead(s) ==
  /\ sends[s].pc = "getItem"
  /\ requests' = Append(requests,
                   [body |-> FormData(sends[s].message, sends[s].image),
                    authorization |-> Authorization(token),
                    logLen |-> Len(chat), send |-> s])
  /\ message' = <<>>
  /\ image' = NULL
  /\ sends' = [sends EXCEPT ![s].pc = "fetch", ![s].req = Len(requests) + 1]
  /\ UNCHANGED <<screen, chat, email, password, loading, token, logins,
                 signups, picker, alert, author>>

\* AsyncStorage.getItem rejected: line 35 is outside the try, sendMessage ends
SendTokenReadError(s) ==
  /\ sends[s].pc = "getItem"
  /\ sends' = [sends EXCEPT ![s].pc = "rejected"]
  /\ UNCHANGED <<screen, message, chat, image, email, password, loading, token,
                 logins, signups, picker, requests, alert, author>>

\* fetch resolved with a status: lines 64-67 / 75
SendResponse(s, ok) ==
  /\ sends[s].pc = "fetch"
  /\ loading' = FALSE
  /\ sends' = [sends EXCEPT ![s].pc = "json", ![s].status = IF ok THEN "ok" ELSE "fail",
                               ![s].respLen = Len(chat)]
  /\ UNCHANGED <<screen, message, chat, image, email, password, token, logins,
                 signups, picker, requests, alert, author>>

\* the catch of lines 82-89
SendCatch(s) ==
  /\ loading' = FALSE
  /\ chat' = AppendEntry(chat, Entry("text", <<ServerNotReachable>>, "ai"))
  /\ author' = Append(author, s)
  /\ UNCHANGED <<screen, message, image, email, password, token, logins,
                 signups, picker, requests, alert>>

\* fetch rejected: no response
SendNetworkError(s) ==
  /\ sends[s].pc = "fetch"
  /\ sends' = [sends EXCEPT ![s].pc = "caught-fetch"]
  /\ SendCatch(s)

\* res.json() resolved: lines 68-72 (status not ok), 78-81 (ok)
SendBody(s, v) ==
  /\ sends[s].pc = "json"
  /\ v \in (IF sends[s].status = "ok" THEN Replies ELSE Details)
  /\ chat' = AppendEntry(chat, Entry("text", IF sends[s].status = "ok" THEN v ELSE ErrorText(v), "ai"))
  /\ author' = Append(author, s)
  /\ sends' = [sends EXCEPT ![s].pc = IF sends[s].status = "ok" THEN "replied" ELSE "error",
                            ![s].body = v]
  /\ UNCHANGED <<screen, message, image, email, password, loading, token, logins,
                 signups, picker, requests, alert>>

\* res.json() rejected (the body is not JSON): caught by line 82
SendBodyError(s) ==
  /\ sends[s].pc = "json"
  /\ sends' = [sends EXCEPT ![s].pc = "caught-json"]
  /\ SendCatch(s)

(* ------------------------------- pickImage ------------------------------ *)
\* pickImage up to its await, lines 94-97: the system picker opens
PickImage ==
  /\ ChatUI
  /\ ~loading
  /\ Len(chat) + Reserved + 1 <= MaxChat
  /\ picker' = "open"
  /\ UNCHANGED <<screen, message, chat, image, email, password, loading, token,
                 sends, logins, signups, requests, alert, author>>

\* the picker resolved with result.canceled: line 99 is false
PickCanceled ==
  /\ picker = "open"
  /\ picker' = "idle"
  /\ UNCHANGED <<screen, message, chat, image, email, password, loading, token,
                 sends, logins, signups, requests, alert, author>>

\* a picker result that sets the pending image without logging the entry
PickAssetNoEntry(uri) ==
  /\ picker = "open"
  /\ picker' = "idle"
  /\ image' = uri
  /\ UNCHANGED <<screen, message, chat, email, password, loading, token, sends,
                 logins, signups, requests, alert, author>>

\* the picker resolved with an asset: lines 100-107
PickAsset(uri) ==
  /\ picker = "open"
  /\ picker' = "idle"
  /\ image' = uri
  /\ chat' = AppendEntry(chat, Entry("image", uri, "user"))
  /\ author' = Append(author, 0)
  /\ UNCHANGED <<screen, message, email, password, loading, token, sends,
                 logins, signups, requests, alert>>

(* ------------------------------ auth screen ------------------------------ *)
\* onChangeText={setEmail}, line 165
SetEmail(e) ==
  /\ screen = "auth"
  /\ email' = e
  /\ UNCHANGED <<screen, message, chat, image, password, loading, token, sends,
                 logins, signups, picker, requests, alert, author>>

\* onChangeText={setPassword}, line 172
SetPassword(p) ==
  /\ screen = "auth"
  /\ password' = p
  /\ UNCHANGED <<screen, message, chat, image, email, loading, token, sends,
                 logins, signups, picker, requests, alert, author>>

\* signup up to its await, lines 115-121
Signup ==
  /\ screen = "auth"
  /\ Len(signups) < MaxSignups
  /\ signups' = Append(signups, [pc |-> "fetch"])
  /\ UNCHANGED <<screen, message, chat, image, email, password, loading, token,
                 sends, logins, picker, requests, alert, author>>

\* mutant of SignupResponse: a successful signup opens the home screen
SignupResponseNavigates(u, ok) ==
  /\ signups[u].pc = "fetch"
  /\ alert' = IF ok THEN "Signup successful, please login" ELSE "Signup failed"
  /\ signups' = [signups EXCEPT ![u].pc = IF ok THEN "ok" ELSE "failed"]
  /\ screen' = IF ok THEN "home" ELSE screen
  /\ UNCHANGED <<message, chat, image, email, password, loading, token,
                 sends, logins, picker, requests, author>>

\* the signup fetch resolved: lines 123-128
SignupResponse(u, ok) ==
  /\ signups[u].pc = "fetch"
  /\ alert' = IF ok THEN "Signup successful, please login" ELSE "Signup failed"
  /\ signups' = [signups EXCEPT ![u].pc = IF ok THEN "ok" ELSE "failed"]
  /\ UNCHANGED <<screen, message, chat, image, email, password, loading, token,
                 sends, logins, picker, requests, author>>

\* the signup fetch rejected: lines 129-131
SignupNetworkError(u) ==
  /\ signups[u].pc = "fetch"
  /\ alert' = ServerNotReachable
  /\ signups' = [signups EXCEPT ![u].pc = "caught"]
  /\ UNCHANGED <<screen, message, chat, image, email, password, loading, token,
                 sends, logins, picker, requests, author>>

\* login up to its first await, lines 134-140
Login ==
  /\ screen = "auth"
  /\ Len(logins) < MaxLogins
  /\ logins' = Append(logins, [pc |-> "fetch", access_token |-> NULL])
  /\ UNCHANGED <<screen, message, chat, image, email, password, loading, token,
                 sends, signups, picker, requests, alert, author>>

\* a catch block that also removes the stored token
LoginCatchRemovesToken(l) ==
  /\ alert' = ServerNotReachable
  /\ logins' = [logins EXCEPT ![l].pc = "caught"]
  /\ token' = NULL
  /\ UNCHANGED <<screen, message, chat, image, email, password, loading,
                 sends, signups, picker, requests, author>>

\* the catch of lines 151-153
LoginCatch(l) ==
  /\ alert' = ServerNotReachable
  /\ logins' = [logins EXCEPT ![l].pc = "caught"]
  /\ UNCHANGED <<screen, message, chat, image, email, password, loading, token,
                 sends, signups, picker, requests, author>>

\* the login fetch resolved with a status: lines 142-147
LoginResponse(l, ok) ==
  /\ logins[l].pc = "fetch"
  /\ IF ok
       THEN /\ logins' = [logins EXCEPT ![l].pc = "json"]
            /\ UNCHANGED alert
       ELSE /\ logins' = [logins EXCEPT ![l].pc = "invalid"]
            /\ alert' = "Invalid credentials"
  /\ UNCHANGED <<screen, message, chat, image, email, password, loading, token,
                 sends, signups, picker, requests, author>>

\* the login fetch rejected
LoginNetworkError(l) ==
  /\ logins[l].pc = "fetch"
  /\ LoginCatch(l)

\* res.json() resolved, AsyncStorage.setItem is called: lines 147-148.
\* setItem throws on a value that is undefined (the body has no access_token).
LoginBody(l, tok) ==
  /\ logins[l].pc = "json"
  /\ IF tok = UNDEFINED
       THEN LoginCatch(l)
       ELSE /\ logins' = [logins EXCEPT ![l].pc = "setItem", ![l].access_token = tok]
            /\ UNCHANGED <<screen, message, chat, image, email, password, loading,
                           token, sends, signups, picker, requests, alert, author>>

\* res.json() rejected
LoginBodyError(l) ==
  /\ logins[l].pc = "json"
  /\ LoginCatch(l)

\* the storage performs the write of setItem('token', data.access_token)
StorageWrite(l) ==
  /\ logins[l].pc = "setItem"
  /\ token' = logins[l].access_token
  /\ logins' = [logins EXCEPT ![l].pc = "stored"]
  /\ UNCHANGED <<screen, message, chat, image, email, password, loading, sends,
                 signups, picker, requests, alert, author>>

\* the storage fails the write: setItem rejects
StorageWriteError(l) ==
  /\ logins[l].pc = "setItem"
  /\ LoginCatch(l)

\* a navigation that leaves home when it is already there
NavigateToggle(scr) == IF scr = "home" THEN "chat" ELSE "home"

\* setScreen('home'), lines 150, 257 and 269: the new screen, given the old one
NavigateHome(scr) == "home"

\* mutant of LoginDone: setItem is not awaited
LoginDoneUnawaited(l) ==
  /\ logins[l].pc \in {"setItem", "stored"}
  /\ screen' = "home"
  /\ logins' = [logins EXCEPT ![l].pc = "home"]
  /\ UNCHANGED <<message, chat, image, email, password, loading, token, sends,
                 signups, picker, requests, alert, author>>

\* the await of line 148 resumes: setScreen('home'), line 150
LoginDone(l) ==
  /\ logins[l].pc = "stored"
  /\ screen' = NavigateHome(screen)
  /\ logins' = [logins EXCEPT ![l].pc = "home"]
  /\ UNCHANGED <<message, chat, image, email, password, loading, token, sends,
                 signups, picker, requests, alert, author>>

(* ------------------------------- navigation ------------------------------ *)
\* the buttons of the home screen, lines 277-278
GoTo(target) ==
  /\ screen = "home"
  /\ target \in {"chat", "emergency"}
  /\ screen' = target
  /\ UNCHANGED <<message, chat, image, email, password, loading, token, sends,
                 logins, signups, picker, requests, alert, author>>

\* "Go Back" of the chat screen (disabled while loading), line 257
GoBackChat ==
  /\ ChatUI
  /\ ~loading
  /\ screen' = NavigateHome(screen)
  /\ UNCHANGED <<message, chat, image, email, password, loading, token, sends,
                 logins, signups, picker, requests, alert, author>>

\* "Go Back" of the emergency screen, line 269
GoBackEmergency ==
  /\ screen = "emergency"
  /\ screen' = NavigateHome(screen)
  /\ UNCHANGED <<message, chat, image, email, password, loading, token, sends,
                 logins, signups, picker, requests, alert, author>>

(* ----------------------------- specifications --------------------------- *)
\* the handlers only the auth screen offers (lines 111-183)
AuthPress ==
  \/ \E e \in Emails : SetEmail(e)
  \/ \E p \in Passwords : SetPassword(p)
  \/ Signup
  \/ Login

SignupAsync ==
  \/ \E u \in DOMAIN signups, ok \in BOOLEAN : SignupResponse(u, ok)
  \/ \E u \in DOMAIN signups : SignupNetworkError(u)

LoginFetchAsync ==
  \/ \E l \in DOMAIN logins, ok \in BOOLEAN : LoginResponse(l, ok)
  \/ \E l \in DOMAIN logins : LoginNetworkError(l)
  \/ \E l \in DOMAIN logins, tok \in Tokens \cup {UNDEFINED} : LoginBody(l, tok)
  \/ \E l \in DOMAIN logins : LoginBodyError(l)

LoginStoreAsync ==
  \/ \E l \in DOMAIN logins : StorageWrite(l)
  \/ \E l \in DOMAIN logins : StorageWriteError(l)
  \/ \E l \in DOMAIN logins : LoginDone(l)

\* the chat screen's handlers and the continuations of sendMessage and pickImage
ChatOps ==
  \/ \E t \in Texts : SetMessage(t)
  \/ SendMessage
  \/ \E s \in DOMAIN sends : SendTokenRead(s)
  \/ \E s \in DOMAIN sends : SendTokenReadError(s)
  \/ \E s \in DOMAIN sends, ok \in BOOLEAN : SendResponse(s, ok)
  \/ \E s \in DOMAIN sends : SendNetworkError(s)
  \/ \E s \in DOMAIN sends, v \in Replies \cup Details : SendBody(s, v)
  \/ \E s \in DOMAIN sends : SendBodyError(s)
  \/ PickImage
  \/ PickCanceled
  \/ \E uri \in URIs : PickAsset(uri)

Navigation ==
  \/ \E target \in {"chat", "emergency"} : GoTo(target)
  \/ GoBackChat
  \/ GoBackEmergency

\* the whole component
Next == AuthPress \/ SignupAsync \/ LoginFetchAsync \/ LoginStoreAsync \/ ChatOps \/ Navigation

Spec == Init /\ [][Next]_vars

\* The session up to and after login, chat idle.  The chat handlers leave screen,
\* token, logins and signups alone, and the only thing they change that an action
\* below reads is loading, which can only disable GoBackChat.
NextAuth == AuthPress \/ SignupAsync \/ LoginFetchAsync \/ LoginStoreAsync \/ Navigation

SpecAuth == Init /\ [][NextAuth]_vars

\* The session from the moment a login has brought the screen to home, after
\* Login was pressed once, or twice with the second login's token stored and its
\* setScreen('home') still to come.  Off the auth screen AuthPress is disabled
\* for good, so from here Next allows what NextChat allows.
InitChat ==
  /\ screen = "home"
  /\ message = <<>>
  /\ chat = <<>>
  /\ image = NULL
  /\ email = "u@x"
  /\ password = "pw"
  /\ loading = FALSE
  /\ sends = <<>>
  /\ \/ /\ logins = <<[pc |-> "home", access_token |-> "tok123"]>>
        /\ token = "tok123"
     \/ /\ logins = <<[pc |-> "home", access_token |-> "tok123"],
                      [pc |-> "stored", access_token |-> "tok456"]>>
        /\ token = "tok456"
  /\ signups = <<>>
  /\ picker = "idle"
  /\ requests = <<>>
  /\ alert = ""
  /\ author = <<>>

LoginResume == \E l \in DOMAIN logins : LoginDone(l)

NextChat == ChatOps \/ LoginResume \/ Navigation

SpecChat == InitChat /\ [][NextChat]_vars

\* InitChat describes states of Spec: SpecAuth reaches each of them
InitChatReached == ~InitChat
(* -------------------------------- claims -------------------------------- *)
IsPrefix(a, b) == Len(a) <= Len(b) /\ SubSeq(b, 1, Len(a)) = a

\* the entries of the log a send appended, by sender
EntriesOf(s, sender) == {i \in DOMAIN chat : author[i] = s /\ chat[i].sender = sender}

\* sends between the press and the response status or the failure of the call
InFlight == {s \in DOMAIN sends : sends[s].pc \in {"getItem", "fetch"}}

\* sends that may still append their assistant entry
InProgress == {s \in DOMAIN sends : sends[s].pc \in {"getItem", "fetch", "json"}}

\* C1: a SendMessage on a composition whose text is empty after trimming and
\* whose image is unset issues no request, leaves the log unchanged, does not
\* set the loading flag and does not clear the composition.
C1_EmptyCompositionSendsNothing ==
  [][(SendMessage /\ Trim(message) = <<>> /\ image = NULL)
       => /\ requests' = requests
          /\ chat' = chat
          /\ loading' = loading
          /\ message' = message
          /\ image' = image
          /\ sends' = sends]_vars

\* a blank text was refused: the alert is up, nothing was sent or logged
C1_Witness ==
  /\ alert = ValidationAlert
  /\ message = <<" ">>
  /\ image = NULL
  /\ ~loading
  /\ sends = <<>>
  /\ requests = <<>>
  /\ chat = <<>>

\* C2: a send with non-empty trimmed text has appended exactly one text/user
\* entry by the time its request is issued, and once its reply has arrived
\* exactly one text/assistant entry carrying the reply, appended after the
\* response and after the user entry.
C2_UserEntryThenReply ==
  \A s \in DOMAIN sends :
    Trim(sends[s].message) # <<>> =>
      /\ sends[s].req # 0 =>
           /\ Cardinality(EntriesOf(s, "user")) = 1
           /\ \A u \in EntriesOf(s, "user") :
                chat[u].type = "text" /\ u <= requests[sends[s].req].logLen
      /\ sends[s].pc = "replied" =>
           /\ Cardinality(EntriesOf(s, "ai")) = 1
           /\ \A a \in EntriesOf(s, "ai") :
                /\ chat[a].type = "text"
                /\ chat[a].value = sends[s].body
                /\ a > sends[s].respLen
                /\ \A u \in EntriesOf(s, "user") : u < a

\* two sends with text, both answered
C2_Witness ==
  /\ Len(sends) = 2
  /\ \A s \in DOMAIN sends : sends[s].pc = "replied" /\ Trim(sends[s].message) # <<>>

\* C3: the conversation log is append-only: every step leaves the log it found
\* as a prefix of the log it leaves.
C3_LogAppendOnly == [][IsPrefix(chat, chat')]_vars

\* a log with an image, a user text and an assistant entry
C3_Witness ==
  /\ Len(chat) >= 3
  /\ \E i \in DOMAIN chat : chat[i].type = "image"
  /\ \E i \in DOMAIN chat : chat[i].type = "text" /\ chat[i].sender = "user"
  /\ \E i \in DOMAIN chat : chat[i].sender = "ai"

\* C4: the loading flag is true exactly when one send is in flight (pressed,
\* and neither its response status nor the failure of its call has come).
C4_LoadingIffOneInFlight == loading <=> (Cardinality(InFlight) = 1)

\* C5: no two sends are in progress at once (a send is in progress until it
\* has appended its assistant entry).
C5_SendsNeverOverlap == Cardinality(InProgress) <= 1

\* C6: the step that stores a login's token writes the access_token of its
\* response over whatever was stored and leaves the screen alone, and a login
\* sets the screen to home only in a later step, once its write is done.
C6_TokenStoredBeforeHome ==
  [][\A l \in DOMAIN logins :
       /\ (logins[l].pc = "json" /\ logins'[l].pc = "setItem")
            => (screen' = screen /\ token' = token)
       /\ (logins[l].pc = "setItem" /\ logins'[l].pc = "stored")
            => (token' = logins[l].access_token /\ screen' = screen)
       /\ (logins[l].pc # "home" /\ logins'[l].pc = "home")
            => (logins[l].pc = "stored" /\ screen' = "home" /\ token' = token)]_vars

\* two logins got different tokens; the later write replaced the earlier one
C6_Witness ==
  /\ Len(logins) = 2
  /\ logins[1].pc = "home" /\ logins[2].pc = "home"
  /\ logins[1].access_token # logins[2].access_token
  /\ token = logins[2].access_token
  /\ screen = "home"

\* C7: the screen starts at auth, leaves auth only in the step in which a
\* login whose token is stored resumes (and then for home), and is never auth
\* again once it has left.
C7_AuthLeftOnlyByLogin ==
  /\ screen = "auth"
  /\ [][/\ (screen = "auth" /\ screen' # "auth")
             => /\ screen' = "home"
                /\ \E l \in DOMAIN logins :
                     logins[l].pc = "stored" /\ logins'[l].pc = "home"
        /\ screen # "auth" => screen' # "auth"]_vars

\* signup succeeded, one login was refused, another one opened the app
C7_Witness ==
  /\ screen = "chat"
  /\ \E u \in DOMAIN signups : signups[u].pc = "ok"
  /\ \E l \in DOMAIN logins : logins[l].pc = "invalid"
  /\ \E l \in DOMAIN logins : logins[l].pc = "home"

\* C8: the screen changes only along auth -> home (a login completing),
\* home -> chat|emergency and chat|emergency -> home (navigation, no login
\* completing in that step).
C8_ScreenStateMachine ==
  [][LET loginCompletes ==
           \E l \in DOMAIN logins : logins[l].pc = "stored" /\ logins'[l].pc = "home"
     IN  screen' # screen =>
           \/ screen = "auth" /\ screen' = "home" /\ loginCompletes
           \/ screen = "home" /\ screen' \in {"chat", "emergency"} /\ ~loginCompletes
           \/ screen \in {"chat", "emergency"} /\ screen' = "home" /\ ~loginCompletes]_vars

\* t is m without the blanks around it
IsTrimOf(t, m) ==
  /\ t # <<>>
  /\ ~IsSpace(t[1])
  /\ ~IsSpace(t[Len(t)])
  /\ \E i \in 0..Len(m) :
       /\ i + Len(t) <= Len(m)
       /\ SubSeq(m, i + 1, i + Len(t)) = t
       /\ \A k \in 1..Len(m) : (k <= i \/ k > i + Len(t)) => IsSpace(m[k])

AllBlank(m) == \A k \in 1..Len(m) : IsSpace(m[k])

\* C9: every request issued has a message field exactly when the text of the
\* composition sent is not all blank, holding that text without the blanks
\* around it, and an image field exactly when the composition has an image,
\* holding its URI as upload.jpg, image/jpeg; no request has neither field.
C9_RequestBodyFields ==
  \A r \in DOMAIN requests :
    LET body == requests[r].body
        sent == sends[requests[r].send]
    IN  /\ body.hasMessage <=> ~AllBlank(sent.message)
        /\ body.hasMessage => IsTrimOf(body.message, sent.message)
        /\ body.hasImage <=> sent.image # NULL
        /\ body.hasImage =>
             body.image = [uri |-> sent.image, name |-> "upload.jpg", type |-> "image/jpeg"]
        /\ body.hasMessage \/ body.hasImage

\* a request with both fields, its text typed with blanks around it
C9_Witness ==
  \E r \in DOMAIN requests :
    /\ requests[r].body.hasMessage
    /\ requests[r].body.hasImage
    /\ requests[r].body.message # sends[requests[r].send].message

\* C10: a send that got a non-success status appends exactly one
\* text/assistant entry, reading "Error: " and the body's detail, or
\* "Authentication failed" when there is none.
C10_FailureStatusGivesErrorEntry ==
  \A s \in DOMAIN sends :
    (sends[s].status = "fail" /\ sends[s].pc # "json") =>
      /\ Cardinality(EntriesOf(s, "ai")) = 1
      /\ \A a \in EntriesOf(s, "ai") :
           /\ chat[a].type = "text"
           /\ chat[a].value \in
                {<<"Error: ">> \o d : d \in (Details \ {<<UNDEFINED>>})
                                        \cup {<<"Authentication failed">>}}

\* C11: a send whose fetch failed (no response) has appended exactly one
\* text/assistant entry, "Server not reachable", and every such entry in the
\* log comes from a send that got no response.
C11_NotReachableOnlyWithoutResponse ==
  /\ \A s \in DOMAIN sends :
       sends[s].pc = "caught-fetch" =>
         /\ Cardinality(EntriesOf(s, "ai")) = 1
         /\ \A a \in EntriesOf(s, "ai") :
              chat[a] = Entry("text", <<ServerNotReachable>>, "ai")
  /\ \A i \in DOMAIN chat :
       chat[i] = Entry("text", <<ServerNotReachable>>, "ai")
         => sends[author[i]].status = "none"

\* C12: between the press that starts a send and the clearing of the
\* composition no input reaches the composition: while a send has not yet
\* cleared it, the pending text and image are those the send was started on.
C12_ClearAtomicWithInitiation ==
  \A s \in DOMAIN sends :
    sends[s].pc = "getItem" =>
      message = sends[s].message /\ image = sends[s].image

\* C13: when the picker resolves, either it was canceled and nothing else
\* changes, or the chosen URI becomes the pending image and exactly one
\* image/user entry holding that URI is appended to the log in that same step,
\* with no send started and no request issued.
C13_PickSetsImageAndLogsEntry ==
  [][(picker = "open" /\ picker' = "idle") =>
       \/ UNCHANGED <<screen, message, chat, image, email, password, loading,
                      token, sends, logins, signups, requests, alert, author>>
       \/ /\ image' \in URIs
          /\ chat' = Append(chat, Entry("image", image', "user"))
          /\ UNCHANGED <<screen, message, loading, token, sends, requests>>]_vars

C13_Witness ==
  /\ picker = "idle"
  /\ image \in URIs
  /\ requests = <<>>
  /\ sends = <<>>
  /\ Len(chat) = 1
  /\ chat[1] = Entry("image", image, "user")

\* C14: a navigation to home (either "Go Back", or a login's setScreen) ends on
\* the home screen and changes nothing else the component holds, and a second
\* navigation to home from there gives the same screen again.
C14_NavigateHomeIdempotent ==
  [][(GoBackChat \/ GoBackEmergency \/ LoginResume) =>
       /\ screen' = "home"
       /\ NavigateHome(screen') = screen'
       /\ UNCHANGED <<message, chat, image, email, password, loading, token,
                      sends, signups, picker, requests, alert, author>>]_vars

\* the second login's navigation has run right after the first one's
C14_Witness ==
  /\ screen = "home"
  /\ Len(logins) = 2
  /\ logins[1].pc = "home"
  /\ logins[2].pc = "home"
  /\ chat = <<>>
  /\ sends = <<>>

\* C15: the stored token changes only in the step where the storage performs
\* the write of a login that got a success status and a body, and then to that
\* login's access_token; a login ending on a failure status or in the catch
\* block leaves token and screen as they were; no step of a signup or of a send
\* changes the token.
C15_TokenWrittenOnlyByLogin ==
  [][/\ token' # token =>
          \E l \in DOMAIN logins :
            /\ logins[l].pc = "setItem"
            /\ logins'[l].pc = "stored"
            /\ token' = logins[l].access_token
     /\ \A l \in DOMAIN logins :
          (logins[l].pc # logins'[l].pc /\ logins'[l].pc \in {"invalid", "caught"})
            => (token' = token /\ screen' = screen)
     /\ signups' # signups => token' = token
     /\ (sends' # sends \/ requests' # requests) => token' = token]_vars

\* one login has failed and another one has written its token
C15_Witness ==
  \E l, k \in DOMAIN logins :
    /\ logins[l].pc \in {"invalid", "caught"}
    /\ logins[k].pc = "stored"
    /\ token = logins[k].access_token
    /\ screen = "auth"
    /\ \E u \in DOMAIN signups : signups[u].pc # "fetch"

\* C16: off the auth screen (home, chat, emergency) the held email and
\* password are empty.
C16_CredentialsClearedOffAuth ==
  screen # "auth" => (email = "" /\ password = "")

\* the tokens a login has received with a success status and written to storage
IssuedTokens ==
  {logins[l].access_token : l \in {k \in DOMAIN logins : logins[k].pc \in {"stored", "home"}}}

\* C17: off the auth screen the storage holds a token that a successful login
\* wrote, and the Authorization header of every chat/send request issued is
\* "Bearer " followed by such a token, never by an absent one.
C17_RequestsCarryIssuedToken ==
  /\ screen # "auth" => token \in IssuedTokens
  /\ \A r \in DOMAIN requests :
       \E t \in IssuedTokens : requests[r].authorization = <<"Bearer ", t>>

\* a request was issued after the second login had replaced the first token
C17_Witness ==
  /\ Len(logins) = 2
  /\ \E r \in DOMAIN requests : requests[r].authorization = <<"Bearer ", "tok456">>

\* C18: a send that passed the guard and whose asynchronous steps have all
\* completed or failed has appended exactly one text/assistant entry and,
\* being the latest send, has left the loading flag false.
C18_SendEndsWithOneAssistantEntry ==
  \A s \in DOMAIN sends :
    sends[s].pc \notin {"getItem", "fetch", "json"} =>
      /\ Cardinality(EntriesOf(s, "ai")) = 1
      /\ s = Len(sends) => ~loading

\* C19 as stated: the text/user entry a send appended holds exactly the value
\* of the message field of the send's request.
C19_EntryEqualsMessageField ==
  \A r \in DOMAIN requests :
    requests[r].body.hasMessage =>
      \E u \in EntriesOf(requests[r].send, "user") :
        chat[u] = Entry("text", requests[r].body.message, "user")

\* C19, amended: a send whose request has a message field appended exactly one
\* text/user entry, holding the pending text as typed, and the message field
\* is that entry's content with the blanks around it removed.
C19_MessageFieldIsTrimmedEntry ==
  \A r \in DOMAIN requests :
    requests[r].body.hasMessage =>
      /\ Cardinality(EntriesOf(requests[r].send, "user")) = 1
      /\ \A u \in EntriesOf(requests[r].send, "user") :
           /\ chat[u] = Entry("text", sends[requests[r].send].message, "user")
           /\ IsTrimOf(requests[r].body.message, chat[u].value)

\* a padded text was sent: the entry shows the blanks, the request has none
C19_Witness ==
  \E r \in DOMAIN requests :
    /\ requests[r].body.message = <<"a">>
    /\ \E u \in EntriesOf(requests[r].send, "user") : chat[u].value = <<" ", "a", " ">>

\* C20: when a request is issued, the image/user entries appended to the log
\* since the previous request are at most one, and the request's image field
\* carries the URI of each of them.
C20_ImageEntriesAttachedToNextRequest ==
  \A r \in DOMAIN requests :
    LET from == IF r = 1 THEN 0 ELSE requests[r - 1].logLen
        imgs == {i \in (from + 1)..requests[r].logLen : chat[i].type = "image"}
    IN  /\ Cardinality(imgs) <= 1
        /\ \A i \in imgs :
             /\ requests[r].body.hasImage
             /\ requests[r].body.image.uri = chat[i].value
=============================================================================
